---- MODULE Spec2Model ----
(***************************************************************************)
(* Weekly stability report generator (src/src/main.rs).                    *)
(*                                                                         *)
(* Text is a sequence of one-character strings.  Option<T> is a sequence   *)
(* of length at most one: None is << >> and Some(v) is <<v>>.  A NaiveDate *)
(* is the number of days since 1970-01-01 in the proleptic Gregorian       *)
(* calendar.                                                               *)
(***************************************************************************)
EXTENDS Integers, Sequences, FiniteSets, TLC

VARIABLES
    arg, ret, returned,          \* one call of a pure function: argument, result
    pc,                          \* position of main
    processEnv, dotFile, env,    \* real environment, .env file, effective environment
    today,                       \* Local::now().date_naive()
    week_start, week_end,
    fileExists, fileOpened,      \* outages.csv
    csv, row,                    \* rows of the log, index of the next row to read
    outages, jira_details, jira_fetch_failed,
    i,                           \* index of the record the enrichment loop is at
    call,                        \* the call of fetch_jira_details in progress or just returned
    jiraRequests,                \* number of issue-tracker requests sent
    fetchCount,                  \* issue key -> number of calls of fetch_jira_details
    failedKeys,                  \* issue keys for which a call returned Err
    lmRequests, lmResponse,      \* language-model requests sent; the response got
    stdout,
    exit                         \* "running", "success", "error" (main returned Err), "panic"

harnessVars == <<arg, ret, returned>>
mainVars == <<pc, processEnv, dotFile, env, today, week_start, week_end, fileExists,
              fileOpened, csv, row, outages, jira_details, jira_fetch_failed, i, call,
              jiraRequests, fetchCount, failedKeys, lmRequests, lmResponse, stdout, exit>>
vars == <<arg, ret, returned, pc, processEnv, dotFile, env, today, week_start, week_end,
          fileExists, fileOpened, csv, row, outages, jira_details, jira_fetch_failed, i,
          call, jiraRequests, fetchCount, failedKeys, lmRequests, lmResponse, stdout, exit>>

None == << >>
Some(v) == <<v>>

(***************************************************************************)
(* Characters and text                                                     *)
(***************************************************************************)
DigitChars == <<"0", "1", "2", "3", "4", "5", "6", "7", "8", "9">>

is_ascii_digit(c) == \E n \in 1..10 : DigitChars[n] = c

is_ascii_uppercase(c) ==
    c \in {"A", "B", "C", "D", "E", "F", "G", "H", "I", "J", "K", "L", "M",
           "N", "O", "P", "Q", "R", "S", "T", "U", "V", "W", "X", "Y", "Z"}

DigitVal(c) == (CHOOSE n \in 1..10 : DigitChars[n] = c) - 1

contains(s, c) == \E n \in 1..Len(s) : s[n] = c

\* str::split(sep): the pieces between the separators, empty pieces included
RECURSIVE split(_, _)
split(s, sep) ==
    IF ~contains(s, sep) THEN <<s>>
    ELSE LET n == CHOOSE k \in 1..Len(s) : s[k] = sep /\ \A j \in 1..(k - 1) : s[j] # sep
         IN  <<SubSeq(s, 1, n - 1)>> \o split(SubSeq(s, n + 1, Len(s)), sep)

RECURSIVE DecimalValue(_)
DecimalValue(s) ==
    IF s = << >> THEN 0 ELSE 10 * DecimalValue(SubSeq(s, 1, Len(s) - 1)) + DigitVal(s[Len(s)])

AllDigits(s) == \A n \in 1..Len(s) : is_ascii_digit(s[n])

\* str::parse::<u32>(): an optional '+', then one or more digits.  The fields
\* modelled have at most four digits, so the overflow error does not arise.
parse_u32(s) ==
    LET digits == IF s # << >> /\ s[1] = "+" THEN Tail(s) ELSE s
    IN  IF digits = << >> \/ ~AllDigits(digits) THEN None
        ELSE Some(DecimalValue(digits))

I32Max == 2147483647
I32Min == -2147483647 - 1
I32MaxDigits == <<"2", "1", "4", "7", "4", "8", "3", "6", "4", "7">>
I32MinDigits == <<"2", "1", "4", "7", "4", "8", "3", "6", "4", "8">>

RECURSIVE StripZeros(_)
StripZeros(digits) ==
    IF Len(digits) > 1 /\ digits[1] = "0" THEN StripZeros(Tail(digits)) ELSE digits

\* a <= b for two digit strings of the same length
RECURSIVE DigitsLeq(_, _)
DigitsLeq(a, b) ==
    IF a = << >> THEN TRUE
    ELSE IF DigitVal(a[1]) # DigitVal(b[1]) THEN DigitVal(a[1]) < DigitVal(b[1])
    ELSE DigitsLeq(Tail(a), Tail(b))

\* the number written by the digits is at most the one written by limit
fits(digits, limit) ==
    LET d == StripZeros(digits)
    IN  Len(d) < Len(limit) \/ (Len(d) = Len(limit) /\ DigitsLeq(d, limit))

\* str::parse::<i32>(): an optional '+' or '-', then one or more digits; an
\* error when the number is outside i32
parse_i32(s) ==
    LET signed == s # << >> /\ s[1] \in {"+", "-"}
        negative == signed /\ s[1] = "-"
        digits == IF signed THEN Tail(s) ELSE s
    IN  IF digits = << >> \/ ~AllDigits(digits) THEN None
        ELSE IF negative /\ StripZeros(digits) = I32MinDigits THEN Some(I32Min)
        ELSE IF ~fits(digits, I32MaxDigits) THEN None
        ELSE Some(IF negative THEN 0 - DecimalValue(digits) ELSE DecimalValue(digits))

(***************************************************************************)
(* Calendar (chrono::NaiveDate)                                            *)
(***************************************************************************)
IsLeapYear(y) == (y % 4 = 0 /\ y % 100 # 0) \/ y % 400 = 0

DaysInMonth(y, m) ==
    IF m = 2 THEN (IF IsLeapYear(y) THEN 29 ELSE 28)
    ELSE IF m \in {4, 6, 9, 11} THEN 30 ELSE 31

\* days since 1970-01-01 of the civil date y-m-d
days_from_civil(y, m, d) ==
    LET yy  == IF m <= 2 THEN y - 1 ELSE y
        era == yy \div 400
        yoe == yy - era * 400
        mp  == IF m > 2 THEN m - 3 ELSE m + 9
        doy == (153 * mp + 2) \div 5 + d - 1
        doe == yoe * 365 + yoe \div 4 - yoe \div 100 + doy
    IN  era * 146097 + doe - 719468

\* the civil date [year, month, day] of the day z days after 1970-01-01
civil_from_days(z) ==
    LET zz  == z + 719468
        era == zz \div 146097
        doe == zz - era * 146097
        yoe == (doe - doe \div 1460 + doe \div 36524 - doe \div 146096) \div 365
        doy == doe - (365 * yoe + yoe \div 4 - yoe \div 100)
        mp  == (5 * doy + 2) \div 153
        d   == doy - (153 * mp + 2) \div 5 + 1
        m   == IF mp < 10 THEN mp + 3 ELSE mp - 9
    IN  [year |-> yoe + era * 400 + (IF m <= 2 THEN 1 ELSE 0), month |-> m, day |-> d]

\* NaiveDate::from_ymd_opt
from_ymd_opt(y, m, d) ==
    IF m \in 1..12 /\ d >= 1 /\ d <= DaysInMonth(y, m) THEN Some(days_from_civil(y, m, d))
    ELSE None

\* Datelike::weekday, as the number of days since Sunday (1970-01-01 was a Thursday)
weekday(date) == (date + 4) % 7

Jan == <<"J", "a", "n">>
Feb == <<"F", "e", "b">>
Mar == <<"M", "a", "r">>
Apr == <<"A", "p", "r">>
May == <<"M", "a", "y">>
Jun == <<"J", "u", "n">>
Jul == <<"J", "u", "l">>
Aug == <<"A", "u", "g">>
Sep == <<"S", "e", "p">>
Oct == <<"O", "c", "t">>
Nov == <<"N", "o", "v">>
Dec == <<"D", "e", "c">>
MonthTokens == <<Jan, Feb, Mar, Apr, May, Jun, Jul, Aug, Sep, Oct, Nov, Dec>>

\* the match on month_str
month_of(month_str) ==
    IF \E m \in 1..12 : MonthTokens[m] = month_str
    THEN Some(CHOOSE m \in 1..12 : MonthTokens[m] = month_str)
    ELSE None

parse_date(date_str) ==
    LET parts == split(date_str, "/")
    IN  IF Len(parts) # 3 THEN None
        ELSE LET day   == parse_u32(parts[1])
                 year  == parse_i32(parts[3])
                 month == month_of(parts[2])
             IN  IF day = None \/ year = None \/ month = None THEN None
                 ELSE from_ymd_opt(2000 + year[1], month[1], day[1])

get_previous_week_range_late(now) ==
    LET days_since_sunday == weekday(now)
        last_sunday       == now - (IF days_since_sunday = 0 THEN 7 ELSE days_since_sunday)
        previous_sunday   == last_sunday - 7
        previous_saturday == previous_sunday + 6
    IN  <<previous_sunday, previous_saturday>>

get_previous_week_range_short(now) ==
    LET days_since_sunday == weekday(now)
        last_sunday       == now - days_since_sunday
        previous_sunday   == last_sunday - 7
        previous_saturday == previous_sunday + (IF days_since_sunday = 3 THEN 5 ELSE 6)
    IN  <<previous_sunday, previous_saturday>>

get_previous_week_range(now) ==
    LET days_since_sunday == weekday(now)
        last_sunday       == now - days_since_sunday
        previous_sunday   == last_sunday - 7
        previous_saturday == previous_sunday + 6
    IN  <<previous_sunday, previous_saturday>>

(***************************************************************************)
(* Issue keys                                                              *)
(***************************************************************************)
\* the test of one '/'-separated part of the ticket
is_key_part(part) ==
    /\ contains(part, "-")
    /\ LET key_parts == split(part, "-")
       IN  /\ Len(key_parts) = 2
           /\ \A n \in 1..Len(key_parts[1]) : is_ascii_uppercase(key_parts[1][n])
           /\ \A n \in 1..Len(key_parts[2]) : is_ascii_digit(key_parts[2][n])

extract_jira_key(url) ==
    LET parts == split(url, "/")
    IN  IF \E n \in 1..Len(parts) : is_key_part(parts[n])
        THEN Some(parts[CHOOSE n \in 1..Len(parts) :
                          is_key_part(parts[n]) /\ \A j \in 1..(n - 1) : ~is_key_part(parts[j])])
        ELSE None

(***************************************************************************)
(* Issue descriptions: a sequence of tokens, each a clock time such as     *)
(* "18:40" (\d{1,2}:\d{2}), a single character, or a word.                 *)
(***************************************************************************)
TimeTokens == {"18:40", "18:43"}
\* the class [-...] of the pattern: the hyphen and the three characters U+00E2, U+20AC, U+201C
SeparatorChars == {"-", "U+00E2", "U+20AC", "U+201C"}

RECURSIVE skip_whitespace(_, _)
skip_whitespace(description, n) ==
    IF n <= Len(description) /\ description[n] \in {" ", "\n"}
    THEN skip_whitespace(description, n + 1)
    ELSE n

\* a match of (\d{1,2}:\d{2})\s*[sep]\s*(\d{1,2}:\d{2}) starting at token n
time_pattern_at(description, n) ==
    LET sep == skip_whitespace(description, n + 1)
        end == skip_whitespace(description, sep + 1)
    IN  /\ description[n] \in TimeTokens
        /\ sep <= Len(description) /\ description[sep] \in SeparatorChars
        /\ end <= Len(description) /\ description[end] \in TimeTokens

extract_time_from_description(description) ==
    IF /\ contains(description, "-")
       /\ \E n \in 1..Len(description) : description[n] \in TimeTokens \cup {":"}
       /\ \E n \in 1..Len(description) : time_pattern_at(description, n)
    THEN LET n == CHOOSE k \in 1..Len(description) :
                     time_pattern_at(description, k)
                     /\ \A j \in 1..(k - 1) : ~time_pattern_at(description, j)
         IN  <<Some(description[n]),
               Some(description[skip_whitespace(description,
                                                skip_whitespace(description, n + 1) + 1)])>>
    ELSE <<None, None>>

(***************************************************************************)
(* Formatting                                                              *)
(***************************************************************************)
\* Display of a non-negative integer ("{}")
RECURSIVE DecimalText(_)
DecimalText(n) ==
    IF n < 10 THEN <<DigitChars[n + 1]>>
    ELSE DecimalText(n \div 10) \o <<DigitChars[(n % 10) + 1]>>

MonthNames ==
    << <<"J", "a", "n", "u", "a", "r", "y">>,
       <<"F", "e", "b", "r", "u", "a", "r", "y">>,
       <<"M", "a", "r", "c", "h">>,
       <<"A", "p", "r", "i", "l">>,
       <<"M", "a", "y">>,
       <<"J", "u", "n", "e">>,
       <<"J", "u", "l", "y">>,
       <<"A", "u", "g", "u", "s", "t">>,
       <<"S", "e", "p", "t", "e", "m", "b", "e", "r">>,
       <<"O", "c", "t", "o", "b", "e", "r">>,
       <<"N", "o", "v", "e", "m", "b", "e", "r">>,
       <<"D", "e", "c", "e", "m", "b", "e", "r">> >>

\* NaiveDate::format("%B %d"): full month name, day padded to two digits
format_month_day(date) ==
    LET c == civil_from_days(date)
    IN  MonthNames[c.month] \o <<" ">>
        \o (IF c.day < 10 THEN <<"0">> ELSE << >>) \o DecimalText(c.day)

\* number of ISO-8601 weeks of year y: 53 when 1 January is a Thursday, or a
\* Wednesday in a leap year
iso_weeks_in_year(y) ==
    LET jan1 == weekday(days_from_civil(y, 1, 1))
    IN  IF jan1 = 4 \/ (jan1 = 3 /\ IsLeapYear(y)) THEN 53 ELSE 52

\* date.iso_week().week()
get_week_number(date) ==
    LET c       == civil_from_days(date)
        ordinal == date - days_from_civil(c.year, 1, 1) + 1
        isoday  == IF weekday(date) = 0 THEN 7 ELSE weekday(date)
        w       == (ordinal - isoday + 10) \div 7
    IN  IF w < 1 THEN iso_weeks_in_year(c.year - 1)
        ELSE IF w > iso_weeks_in_year(c.year) THEN 1
        ELSE w

format_description(cause, solution) ==
    LET first == IF cause # << >>
                 THEN cause \o (IF cause[Len(cause)] # "." THEN <<".">> ELSE << >>)
                 ELSE << >>
    IN  IF solution # << >>
        THEN first \o (IF first # << >> THEN <<" ">> ELSE << >>) \o solution
                   \o (IF solution[Len(solution)] # "." THEN <<".">> ELSE << >>)
        ELSE first

\* format_outage_entry without the test record.duration != "0"
format_outage_entry_zero(record, start_time, end_time) ==
    LET parsed == parse_date(record.date)
        date == IF parsed # None THEN format_month_day(parsed[1]) ELSE record.date
        time_range ==
            IF start_time # None /\ end_time # None
            THEN <<" ", "(", start_time[1], " ", "-", " ", end_time[1], " ", "-", " ">>
                 \o record.duration \o <<"m", "i", "n", ")">>
            ELSE IF record.duration # << >>
            THEN <<" ", "(">> \o record.duration \o <<"m", "i", "n", ")">>
            ELSE << >>
        severity == IF record.severity # << >>
                    THEN <<" ", "(">> \o record.severity \o <<")">>
                    ELSE << >>
    IN  date \o time_range \o <<" ">> \o record.service \o severity \o <<"\n">>
        \o format_description(record.cause, record.solution)

format_outage_entry(record, start_time, end_time) ==
    LET parsed == parse_date(record.date)
        date == IF parsed # None THEN format_month_day(parsed[1]) ELSE record.date
        time_range ==
            IF start_time # None /\ end_time # None
            THEN <<" ", "(", start_time[1], " ", "-", " ", end_time[1], " ", "-", " ">>
                 \o record.duration \o <<"m", "i", "n", ")">>
            ELSE IF record.duration # << >> /\ record.duration # <<"0">>
            THEN <<" ", "(">> \o record.duration \o <<"m", "i", "n", ")">>
            ELSE << >>
        severity == IF record.severity # << >>
                    THEN <<" ", "(">> \o record.severity \o <<")">>
                    ELSE << >>
    IN  date \o time_range \o <<" ">> \o record.service \o severity \o <<"\n">>
        \o format_description(record.cause, record.solution)

(***************************************************************************)
(* Inputs of a run                                                         *)
(***************************************************************************)
MaxRows == 2
MaxTodayOffset == 59
MaxUrlLen == 4

Token == <<"t", "o", "k">>
True == <<"t", "r", "u", "e">>
False == <<"f", "a", "l", "s", "e">>

ProcessEnvs == [JIRA_TOKEN : {None, Some(Token)}, USE_AI : {None, Some(False)}]
DotFiles == {[JIRA_TOKEN |-> None, USE_AI |-> None],
             [JIRA_TOKEN |-> Some(Token), USE_AI |-> Some(True)]}

\* Wednesday 2024-03-13 and Sunday 2024-03-17
Todays == {days_from_civil(2024, 3, 13), days_from_civil(2024, 3, 17)}

OpsTicket == <<"b", "/", "O", "P", "S", "-", "1">>
AbTicket == <<"b", "/", "A", "B", "-", "2">>
PlainTicket == <<"b", "/", "x">>

OutageRecord(date, ticket, duration, severity) ==
    [date |-> date, ticket |-> ticket, service |-> <<"A", "P", "I">>, duration |-> duration,
     cause |-> <<"c">>, solution |-> <<"s", ".">>, severity |-> severity]

\* what reader.deserialize() yields for one row: None for Err, Some(record) for Ok
RowChoices ==
    { None,
      Some(OutageRecord(<<"0", "5", "/">> \o Mar \o <<"/", "2", "4">>, OpsTicket,
                        <<"5">>, <<"S", "e", "v", "2">>)),
      Some(OutageRecord(<<"0", "3", "/">> \o Mar \o <<"/", "2", "4">>, OpsTicket,
                        <<"0">>, << >>)),
      Some(OutageRecord(<<"0", "9", "/">> \o Mar \o <<"/", "2", "4">>, AbTicket,
                        <<"4", "+", "2", "9">>, << >>)),
      Some(OutageRecord(<<"1", "0", "/">> \o Mar \o <<"/", "2", "4">>, PlainTicket,
                        << >>, <<"S", "e", "v", "1">>)),
      Some(OutageRecord(<<"3", "2", "/">> \o Mar \o <<"/", "2", "4">>, OpsTicket,
                        <<"5">>, << >>)) }

Logs == UNION {[1..n -> RowChoices] : n \in 0..MaxRows}

\* JSON bodies the issue tracker can answer with: fields.description absent or a text
Issues ==
    { [description |-> None],
      [description |-> Some(<<"w", ":", " ", "w">>)],
      [description |-> Some(<<"w", " ", "18:40", " ", "-", " ", "18:43">>)] }

NoCall == [key |-> << >>, reqs |-> << >>, result |-> "none"]

(***************************************************************************)
(* Language-model response.  A body is its JSON reading and its UTF-8      *)
(* layout: runs of <<bytes per character, number of characters>>.          *)
(***************************************************************************)
TruncateLimit == 500

AiContent == <<"A", "I">>

Bodies ==
    { [json |-> "content",     runs |-> << <<1, 40>> >>],
      [json |-> "no_choices",  runs |-> << <<1, 14>> >>],
      [json |-> "undecodable", runs |-> << <<1, 10>> >>],
      [json |-> "undecodable", runs |-> << <<1, 500>>, <<2, 1>> >>],
      [json |-> "undecodable", runs |-> << <<1, 499>>, <<2, 1>> >>] }

LmResponses ==
    { [send |-> "error", status |-> "none", text |-> "none", body |-> << >>],
      [send |-> "ok", status |-> "non_success", text |-> "ok", body |-> << >>],
      [send |-> "ok", status |-> "success", text |-> "error", body |-> << >>] }
    \cup { [send |-> "ok", status |-> "success", text |-> "ok", body |-> Some(b)] : b \in Bodies }

RECURSIVE byte_len(_)
byte_len(runs) ==
    IF runs = << >> THEN 0 ELSE runs[1][1] * runs[1][2] + byte_len(Tail(runs))

\* str::is_char_boundary(n)
RECURSIVE is_char_boundary(_, _)
is_char_boundary(runs, n) ==
    IF runs = << >> THEN n = 0
    ELSE IF n <= runs[1][1] * runs[1][2] THEN n % runs[1][1] = 0
    ELSE is_char_boundary(Tail(runs), n - runs[1][1] * runs[1][2])

Min(a, b) == IF a < b THEN a ELSE b

\* the result of call_lm_studio once the response is known: Ok(content), Err, or
\* a panic of the slice &response_text[..response_text.len().min(500)]
call_lm_studio(response) ==
    IF response.send = "error" THEN [kind |-> "Err"]
    ELSE IF response.status # "success" THEN [kind |-> "Err"]
    ELSE IF response.text = "error" THEN [kind |-> "Err"]
    ELSE LET body == response.body[1]
         IN  IF body.json = "undecodable"
             THEN IF is_char_boundary(body.runs, Min(byte_len(body.runs), TruncateLimit))
                  THEN [kind |-> "Err"]
                  ELSE [kind |-> "Panic"]
             ELSE IF body.json = "no_choices" THEN [kind |-> "Err"]
             ELSE [kind |-> "Ok", content |-> AiContent]

(***************************************************************************)
(* main                                                                    *)
(***************************************************************************)
InitMain ==
    /\ pc = "dotenv"
    /\ processEnv \in ProcessEnvs
    /\ dotFile \in DotFiles
    /\ env = processEnv
    /\ today \in Todays
    /\ week_start = 0
    /\ week_end = 0
    /\ fileExists \in BOOLEAN
    /\ fileOpened = FALSE
    /\ csv \in Logs
    /\ row = 1
    /\ outages = << >>
    /\ jira_details = << >>
    /\ jira_fetch_failed = FALSE
    /\ i = 1
    /\ call = NoCall
    /\ jiraRequests = 0
    /\ fetchCount = << >>
    /\ failedKeys = {}
    /\ lmRequests = 0
    /\ lmResponse = None
    /\ stdout = << >>
    /\ exit = "running"

Init ==
    /\ InitMain
    /\ arg = None
    /\ ret = None
    /\ returned = FALSE

\* dotenv().ok(): assignments of the .env file for the variables not already set
LoadDotenv ==
    /\ pc = "dotenv"
    /\ env' = [name \in DOMAIN processEnv |->
                 IF processEnv[name] # None THEN processEnv[name] ELSE dotFile[name]]
    /\ pc' = "config"
    /\ UNCHANGED <<harnessVars, processEnv, dotFile, today, week_start, week_end, fileExists,
                   fileOpened, csv, row, outages, jira_details, jira_fetch_failed, i, call,
                   jiraRequests, fetchCount, failedKeys, lmRequests, lmResponse, stdout, exit>>

LoadConfig_default_token ==
    /\ pc = "config"
    /\ pc' = "week"
    /\ exit' = exit
    /\ UNCHANGED <<harnessVars, processEnv, dotFile, env, today, week_start, week_end,
                   fileExists, fileOpened, csv, row, outages, jira_details, jira_fetch_failed,
                   i, call, jiraRequests, fetchCount, failedKeys, lmRequests, lmResponse,
                   stdout>>

\* env::var("JIRA_TOKEN").expect(..): a panic when the token is not set
LoadConfig ==
    /\ pc = "config"
    /\ IF env.JIRA_TOKEN = None
       THEN pc' = "done" /\ exit' = "panic"
       ELSE pc' = "week" /\ exit' = exit
    /\ UNCHANGED <<harnessVars, processEnv, dotFile, env, today, week_start, week_end,
                   fileExists, fileOpened, csv, row, outages, jira_details, jira_fetch_failed,
                   i, call, jiraRequests, fetchCount, failedKeys, lmRequests, lmResponse,
                   stdout>>

ComputeWeek ==
    /\ pc = "week"
    /\ week_start' = get_previous_week_range(today)[1]
    /\ week_end' = get_previous_week_range(today)[2]
    /\ pc' = "open"
    /\ UNCHANGED <<harnessVars, processEnv, dotFile, env, today, fileExists, fileOpened, csv,
                   row, outages, jira_details, jira_fetch_failed, i, call, jiraRequests,
                   fetchCount, failedKeys, lmRequests, lmResponse, stdout, exit>>

\* File::open("outages.csv")?: main returns the error when the file cannot be opened
OpenLog ==
    /\ pc = "open"
    /\ IF fileExists
       THEN fileOpened' = TRUE /\ pc' = "ingest" /\ exit' = exit
       ELSE fileOpened' = FALSE /\ pc' = "done" /\ exit' = "error"
    /\ UNCHANGED <<harnessVars, processEnv, dotFile, env, today, week_start, week_end,
                   fileExists, csv, row, outages, jira_details, jira_fetch_failed, i, call,
                   jiraRequests, fetchCount, failedKeys, lmRequests, lmResponse, stdout>>

in_week_exclusive(date, start, end) == date >= start /\ date < end

\* date >= week_start && date <= week_end
in_week(date, start, end) == date >= start /\ date <= end

\* one iteration of the loop over reader.deserialize()
IngestRow ==
    /\ pc = "ingest"
    /\ row <= Len(csv)
    /\ outages' =
         IF csv[row] = None THEN outages
         ELSE LET record == csv[row][1]
                  date == parse_date(record.date)
              IN  IF date # None /\ in_week(date[1], week_start, week_end)
                  THEN Append(outages, record)
                  ELSE outages
    /\ row' = row + 1
    /\ UNCHANGED <<harnessVars, pc, processEnv, dotFile, env, today, week_start, week_end,
                   fileExists, fileOpened, csv, jira_details, jira_fetch_failed, i, call,
                   jiraRequests, fetchCount, failedKeys, lmRequests, lmResponse, stdout, exit>>

\* Option<NaiveDate> ordering: None is below every Some
date_le(a, b) == a = None \/ (b # None /\ a[1] <= b[1])

\* stable insertion of record into a list sorted by parsed date
RECURSIVE insert_by_date(_, _)
insert_by_date(sorted, record) ==
    IF sorted = << >> THEN <<record>>
    ELSE IF date_le(parse_date(sorted[Len(sorted)].date), parse_date(record.date))
    THEN Append(sorted, record)
    ELSE Append(insert_by_date(SubSeq(sorted, 1, Len(sorted) - 1), record), sorted[Len(sorted)])

\* outages.sort_by(|a, b| parse_date(&a.date).cmp(&parse_date(&b.date))): a stable sort
RECURSIVE sort_by_date(_)
sort_by_date(records) ==
    IF records = << >> THEN << >>
    ELSE insert_by_date(sort_by_date(SubSeq(records, 1, Len(records) - 1)),
                        records[Len(records)])

SortOutages ==
    /\ pc = "ingest"
    /\ row > Len(csv)
    /\ outages' = sort_by_date(outages)
    /\ pc' = "enrich"
    /\ UNCHANGED <<harnessVars, processEnv, dotFile, env, today, week_start, week_end,
                   fileExists, fileOpened, csv, row, jira_details, jira_fetch_failed, i, call,
                   jiraRequests, fetchCount, failedKeys, lmRequests, lmResponse, stdout, exit>>

(***************************************************************************)
(* Enrichment: fetch_jira_details, one call per record whose key is not    *)
(* cached                                                                  *)
(***************************************************************************)
Statuses == {"transport_error", "non_success", "success"}

bearer_next_no_retry(status) ==
    IF status = "success" THEN "decode" ELSE "Err"

\* after the bearer request: send().await? returns the transport error; a
\* non-success status leads to the basic-authorization request
bearer_next(status) ==
    IF status = "transport_error" THEN "Err"
    ELSE IF status = "non_success" THEN "basic"
    ELSE "decode"

\* after the basic request: send().await?, then the check of response.status()
basic_next(status) ==
    IF status = "success" THEN "decode" ELSE "Err"

\* the Err arm of the match in main
FetchErr ==
    /\ failedKeys' = failedKeys \cup {call.key}
    /\ jira_fetch_failed' = TRUE
    /\ jira_details' = jira_details
    /\ i' = i + 1
    /\ pc' = "enrich"

\* the Ok arm of the match in main
FetchOk(issue) ==
    /\ jira_details' = (call.key :> issue) @@ jira_details
    /\ UNCHANGED <<failedKeys, jira_fetch_failed>>
    /\ i' = i + 1
    /\ pc' = "enrich"

\* one iteration of the loop over &outages, up to the call of fetch_jira_details
EnrichRecord ==
    /\ pc = "enrich"
    /\ i <= Len(outages)
    /\ LET jira_key == extract_jira_key(outages[i].ticket)
       IN  IF jira_key # None /\ jira_key[1] \notin DOMAIN jira_details
           THEN /\ call' = [key |-> jira_key[1], reqs |-> << >>, result |-> "pending"]
                /\ fetchCount' = IF jira_key[1] \in DOMAIN fetchCount
                                 THEN [fetchCount EXCEPT ![jira_key[1]] = @ + 1]
                                 ELSE (jira_key[1] :> 1) @@ fetchCount
                /\ pc' = "bearer"
                /\ i' = i
           ELSE /\ i' = i + 1
                /\ call' = NoCall
                /\ UNCHANGED <<fetchCount, pc>>
    /\ UNCHANGED <<harnessVars, processEnv, dotFile, env, today, week_start, week_end,
                   fileExists, fileOpened, csv, row, outages, jira_details, jira_fetch_failed,
                   jiraRequests, failedKeys, lmRequests, lmResponse, stdout, exit>>

SendBearer ==
    /\ pc = "bearer"
    /\ \E status \in Statuses :
         /\ call' = [call EXCEPT !.reqs = Append(@, [auth |-> "Bearer", status |-> status]),
                                 !.result = IF bearer_next(status) = "Err" THEN "Err" ELSE @]
         /\ IF bearer_next(status) = "Err"
            THEN FetchErr
            ELSE /\ pc' = bearer_next(status)
                 /\ UNCHANGED <<failedKeys, jira_fetch_failed, jira_details, i>>
    /\ jiraRequests' = jiraRequests + 1
    /\ UNCHANGED <<harnessVars, processEnv, dotFile, env, today, week_start, week_end,
                   fileExists, fileOpened, csv, row, outages, fetchCount, lmRequests,
                   lmResponse, stdout, exit>>

SendBasic ==
    /\ pc = "basic"
    /\ \E status \in Statuses :
         /\ call' = [call EXCEPT !.reqs = Append(@, [auth |-> "Basic", status |-> status]),
                                 !.result = IF basic_next(status) = "Err" THEN "Err" ELSE @]
         /\ IF basic_next(status) = "Err"
            THEN FetchErr
            ELSE /\ pc' = basic_next(status)
                 /\ UNCHANGED <<failedKeys, jira_fetch_failed, jira_details, i>>
    /\ jiraRequests' = jiraRequests + 1
    /\ UNCHANGED <<harnessVars, processEnv, dotFile, env, today, week_start, week_end,
                   fileExists, fileOpened, csv, row, outages, fetchCount, lmRequests,
                   lmResponse, stdout, exit>>

\* response.json().await?: the body decodes as a JiraIssue or the call fails
DecodeIssue ==
    /\ pc = "decode"
    /\ \E decoded \in {None} \cup {Some(issue) : issue \in Issues} :
         IF decoded = None
         THEN call' = [call EXCEPT !.result = "Err"] /\ FetchErr
         ELSE call' = [call EXCEPT !.result = "Ok"] /\ FetchOk(decoded[1])
    /\ UNCHANGED <<harnessVars, processEnv, dotFile, env, today, week_start, week_end,
                   fileExists, fileOpened, csv, row, outages, jiraRequests, fetchCount,
                   lmRequests, lmResponse, stdout, exit>>

(***************************************************************************)
(* Report                                                                  *)
(***************************************************************************)
\* env::var("USE_AI").unwrap_or_else(|_| "true".to_string()) == "true"
use_ai == (IF env.USE_AI = None THEN True ELSE env.USE_AI[1]) = True

Rule == [n \in 1..80 |-> "="]

\* start and end time of a record in the fallback report
fallback_times(record, details) ==
    LET jira_key == extract_jira_key(record.ticket)
    IN  IF jira_key # None /\ jira_key[1] \in DOMAIN details
           /\ details[jira_key[1]].description # None
        THEN extract_time_from_description(details[jira_key[1]].description[1])
        ELSE <<None, None>>

\* the arguments of the println! calls of the Err arm, in order
fallback_report(records, details, start, end) ==
    <<Rule,
      <<"W", "E", "E", "K", "L", "Y", " ", "S", "T", "A", "B", "I", "L", "I", "T", "Y", " ", "R", "E", "P", "O", "R", "T">>,
      <<"W", "e", "e", "k", " ">> \o DecimalText(get_week_number(start)) \o <<" ", "(">> \o format_month_day(start)
          \o <<" ", "-", " ">> \o format_month_day(end) \o <<")">>,
      <<"A", "l", "l", " ", "t", "i", "m", "e", "s", " ", "U", "T", "C">>,
      Rule,
      << >> >>
    \o [n \in 1..Len(records) |->
          format_outage_entry(records[n], fallback_times(records[n], details)[1],
                              fallback_times(records[n], details)[2]) \o <<"\n">>]
    \o <<<<"R", "e", "g", "a", "r", "d", "s", ",">>>>

\* the arguments of the println! calls of the Ok arm, in order
ai_report(content) ==
    <<Rule, <<"W", "E", "E", "K", "L", "Y", " ", "S", "T", "A", "B", "I", "L", "I", "T", "Y", " ", "R", "E", "P", "O", "R", "T", " ", "(", "A", "I", "-", "G", "e", "n", "e", "r", "a", "t", "e", "d", ")">>, Rule, << >>, content>>

\* the end of the enrichment loop and the test of use_ai
FinishEnrich ==
    /\ pc = "enrich"
    /\ i > Len(outages)
    /\ pc' = IF use_ai THEN "ai" ELSE "fallback"
    /\ call' = NoCall
    /\ UNCHANGED <<harnessVars, processEnv, dotFile, env, today, week_start, week_end,
                   fileExists, fileOpened, csv, row, outages, jira_details, jira_fetch_failed,
                   i, jiraRequests, fetchCount, failedKeys, lmRequests, lmResponse,
                   stdout, exit>>

\* call_lm_studio(..).await and the Ok arm of the match on ai_result
CallLmStudio ==
    /\ pc = "ai"
    /\ \E response \in LmResponses :
         /\ lmResponse' = Some(response)
         /\ LET ai_result == call_lm_studio(response)
            IN  IF ai_result.kind = "Panic"
                THEN pc' = "done" /\ exit' = "panic" /\ stdout' = stdout
                ELSE IF ai_result.kind = "Ok"
                THEN pc' = "done" /\ exit' = "success"
                     /\ stdout' = stdout \o ai_report(ai_result.content)
                ELSE pc' = "fallback" /\ exit' = exit /\ stdout' = stdout
    /\ lmRequests' = lmRequests + 1
    /\ UNCHANGED <<harnessVars, processEnv, dotFile, env, today, week_start, week_end,
                   fileExists, fileOpened, csv, row, outages, jira_details, jira_fetch_failed,
                   i, call, jiraRequests, fetchCount, failedKeys>>

\* the Err arm of the match on ai_result, and Ok(()) of main
PrintFallback ==
    /\ pc = "fallback"
    /\ stdout' = stdout \o fallback_report(outages, jira_details, week_start, week_end)
    /\ pc' = "done"
    /\ exit' = "success"
    /\ UNCHANGED <<harnessVars, processEnv, dotFile, env, today, week_start, week_end,
                   fileExists, fileOpened, csv, row, outages, jira_details, jira_fetch_failed,
                   i, call, jiraRequests, fetchCount, failedKeys, lmRequests, lmResponse>>

Next ==
    \/ LoadDotenv
    \/ LoadConfig
    \/ ComputeWeek
    \/ OpenLog
    \/ IngestRow
    \/ SortOutages
    \/ EnrichRecord
    \/ SendBearer
    \/ SendBasic
    \/ DecodeIssue
    \/ FinishEnrich
    \/ CallLmStudio
    \/ PrintFallback

Spec == Init /\ [][Next]_vars

(***************************************************************************)
(* Single calls of the pure functions, on inputs drawn from bounded sets.  *)
(* pc names the function called; main is not running.                      *)
(***************************************************************************)
MainIdle(function) ==
    /\ pc = function
    /\ processEnv = [JIRA_TOKEN |-> Some(Token), USE_AI |-> None]
    /\ dotFile = [JIRA_TOKEN |-> None, USE_AI |-> None]
    /\ env = processEnv
    /\ today = days_from_civil(2024, 3, 13)
    /\ week_start = 0
    /\ week_end = 0
    /\ fileExists = TRUE
    /\ fileOpened = FALSE
    /\ csv = << >>
    /\ row = 1
    /\ outages = << >>
    /\ jira_details = << >>
    /\ jira_fetch_failed = FALSE
    /\ i = 1
    /\ call = NoCall
    /\ jiraRequests = 0
    /\ fetchCount = << >>
    /\ failedKeys = {}
    /\ lmRequests = 0
    /\ lmResponse = None
    /\ stdout = << >>
    /\ exit = "running"

\* values of Local::now().date_naive(): the days from 2024-03-01 on
TodayInputs == {days_from_civil(2024, 3, 1) + n : n \in 0..MaxTodayOffset}

InitWeek ==
    /\ MainIdle("get_previous_week_range")
    /\ arg \in TodayInputs
    /\ ret = None
    /\ returned = FALSE

Call_get_previous_week_range ==
    /\ pc = "get_previous_week_range"
    /\ ~returned
    /\ ret' = get_previous_week_range(arg)
    /\ returned' = TRUE
    /\ UNCHANGED <<arg, mainVars>>

SpecWeek == InitWeek /\ [][Call_get_previous_week_range]_vars

DayFields == {<<"0", "5">>, <<"5">>, <<"2", "9">>, <<"3", "0">>, <<"3", "1">>, <<"3", "2">>,
              <<"0">>, <<"+", "5">>, <<"-", "5">>, <<"x">>, << >>}
MonthFields == {Jan, Feb, Mar, Apr, Dec, <<"X", "y", "z">>, <<"j", "a", "n">>, << >>}
YearFields == {<<"2", "4">>, <<"2", "3">>, <<"0", "0">>, <<"2", "0", "2", "4">>, <<"4">>,
               <<"+", "5">>, <<"-", "5">>, <<"x">>, << >>}

DateInputs ==
    {d \o <<"/">> \o m \o <<"/">> \o y : d \in DayFields, m \in MonthFields, y \in YearFields}
    \cup {d \o <<"/">> \o m : d \in DayFields, m \in MonthFields}
    \cup {d \o <<"/">> \o Mar \o <<"/", "2", "4", "/">> \o y : d \in DayFields, y \in YearFields}

InitDate ==
    /\ MainIdle("parse_date")
    /\ arg \in DateInputs
    /\ ret = None
    /\ returned = FALSE

Call_parse_date ==
    /\ pc = "parse_date"
    /\ ~returned
    /\ ret' = parse_date(arg)
    /\ returned' = TRUE
    /\ UNCHANGED <<arg, mainVars>>

SpecDate == InitDate /\ [][Call_parse_date]_vars

UrlChars == {"A", "a", "1", "-", "/"}
UrlInputs == UNION {[1..n -> UrlChars] : n \in 0..MaxUrlLen}

InitKey ==
    /\ MainIdle("extract_jira_key")
    /\ arg \in UrlInputs
    /\ ret = None
    /\ returned = FALSE

Call_extract_jira_key ==
    /\ pc = "extract_jira_key"
    /\ ~returned
    /\ ret' = extract_jira_key(arg)
    /\ returned' = TRUE
    /\ UNCHANGED <<arg, mainVars>>

SpecKey == InitKey /\ [][Call_extract_jira_key]_vars

(***************************************************************************)
(* Claims                                                                  *)
(***************************************************************************)
\* C1: in any run, fetch_jira_details is invoked at most once for every issue
\* key, whether the lookup succeeded or failed.
C1_AtMostOneLookupPerKey ==
    \A key \in DOMAIN fetchCount : fetchCount[key] <= 1

\* the language-model call failed: anything but a success status with a body
\* that decodes and has a first choice
LmFailed(response) ==
    ~(response.send = "ok" /\ response.status = "success" /\ response.text = "ok"
      /\ response.body[1].json = "content")

RegardsLine == <<"R", "e", "g", "a", "r", "d", "s", ",">>

\* standard output is the fallback report: the banner, one entry for every
\* retained record in sorted order, then the closing line
IsFallbackReport ==
    /\ Len(stdout) = 6 + Len(outages) + 1
    /\ \A n \in 1..Len(outages) :
         stdout[6 + n] = format_outage_entry(outages[n],
                                             fallback_times(outages[n], jira_details)[1],
                                             fallback_times(outages[n], jira_details)[2])
                         \o <<"\n">>
    /\ stdout[Len(stdout)] = RegardsLine

\* C2: whenever AI generation is enabled and the language-model call fails, the
\* run does not abort and prints the fallback report, one entry per retained
\* record in sorted order, followed by the closing line.
C2_FailedAiPrintsFallback ==
    (pc = "done" /\ lmResponse # None /\ LmFailed(lmResponse[1]))
        => (exit = "success" /\ IsFallbackReport)

\* C3: with JIRA_TOKEN absent from the environment (the process environment and
\* the .env assignments), the process terminates with a failure before the log
\* is opened, before any issue-tracker or language-model request, and before
\* any report text is written.
C3_NoTokenNoWork ==
    (processEnv.JIRA_TOKEN = None /\ dotFile.JIRA_TOKEN = None)
        => /\ ~fileOpened
           /\ jiraRequests = 0
           /\ lmRequests = 0
           /\ stdout = << >>
           /\ pc \in {"dotenv", "config", "done"}
           /\ (pc = "done" => exit = "panic")

C3_Witness ==
    pc = "done" /\ exit = "panic" /\ env.JIRA_TOKEN = None /\ csv # << >> /\ fileExists

\* every retained record with an issue key was looked up or found cached
AllKeysTried ==
    \A n \in 1..Len(outages) :
        extract_jira_key(outages[n].ticket) # None
            => extract_jira_key(outages[n].ticket)[1] \in DOMAIN fetchCount

\* C4: a failed issue-tracker lookup never stops the run: the remaining keys
\* are still looked up, no details are cached for the failed key, every
\* retained record is in the final report, and the process exits with success
\* (the token being present and the log opened).
C4_FailedLookupNeverStopsRun ==
    (failedKeys # {})
        => /\ \A key \in failedKeys : key \notin DOMAIN jira_details
           /\ (pc = "done"
                 => /\ exit = "success"
                    /\ AllKeysTried
                    /\ (lmResponse = None \/ LmFailed(lmResponse[1])) => IsFallbackReport)

Returned == call.result \in {"Ok", "Err"}

\* C5: one call of fetch_jira_details sends a bearer request first; it sends a
\* second request, with basic authorization, exactly when the first returned a
\* non-success status; it never sends more than two; it returns an error when
\* the last request returned a non-success status and issue details only when
\* the last request returned success.
C5_BearerThenBasicOnce ==
    /\ Len(call.reqs) <= 2
    /\ (call.result # "none" /\ pc \notin {"bearer"}) => Len(call.reqs) >= 1
    /\ Len(call.reqs) >= 1 => call.reqs[1].auth = "Bearer"
    /\ Len(call.reqs) = 2
          => call.reqs[2].auth = "Basic" /\ call.reqs[1].status = "non_success"
    /\ (Returned /\ call.reqs[1].status = "non_success") => Len(call.reqs) = 2
    /\ (Returned /\ call.reqs[Len(call.reqs)].status = "non_success") => call.result = "Err"
    /\ call.result = "Ok" => call.reqs[Len(call.reqs)].status = "success"

C5_Witness ==
    /\ call.result = "Ok"
    /\ Len(call.reqs) = 2
    /\ call.key \in DOMAIN jira_details

\* the Sundays of the 2024 calendar from February to May
Sundays2024 ==
    {[year |-> 2024, month |-> 2, day |-> d] : d \in {4, 11, 18, 25}}
    \cup {[year |-> 2024, month |-> 3, day |-> d] : d \in {3, 10, 17, 24, 31}}
    \cup {[year |-> 2024, month |-> 4, day |-> d] : d \in {7, 14, 21, 28}}
    \cup {[year |-> 2024, month |-> 5, day |-> d] : d \in {5, 12}}

\* C6, as stated: when today is a Sunday the returned range ends 8 days before
\* today.
C6_SundayEndsEightDaysBefore ==
    (pc = "get_previous_week_range" /\ returned /\ civil_from_days(arg) \in Sundays2024)
        => ret[2] = arg - 8

\* C6, amended: when today is a Sunday the returned range ends 1 day before
\* today and starts 7 days before today (it is the week that ended yesterday).
C6_SundayEndsYesterday ==
    (pc = "get_previous_week_range" /\ returned /\ civil_from_days(arg) \in Sundays2024)
        => (ret[2] = arg - 1 /\ ret[1] = arg - 7)

C6_Witness ==
    /\ pc = "get_previous_week_range"
    /\ returned
    /\ arg = days_from_civil(2024, 3, 17)
    /\ ret = <<days_from_civil(2024, 3, 10), days_from_civil(2024, 3, 16)>>

\* the Sunday on or before a day
SundayOnOrBefore(day) == CHOOSE s \in (day - 6)..day : civil_from_days(s) \in Sundays2024

\* C7: for every today, get_previous_week_range returns (start, end) with start
\* a Sunday, end a Saturday, end = start + 6 days, the whole range before the
\* Sunday that begins the week of today, and start that Sunday minus 7 days.
C7_PreviousWeekShape ==
    (pc = "get_previous_week_range" /\ returned)
        => /\ civil_from_days(ret[1]) \in Sundays2024
           /\ civil_from_days(ret[2] + 1) \in Sundays2024
           /\ ret[2] = ret[1] + 6
           /\ ret[2] < SundayOnOrBefore(arg)
           /\ ret[1] = SundayOnOrBefore(arg) - 7

C7_Witness ==
    /\ pc = "get_previous_week_range"
    /\ returned
    /\ arg = days_from_civil(2024, 3, 13)
    /\ ret = <<days_from_civil(2024, 3, 3), days_from_civil(2024, 3, 9)>>

\* a segment that qualifies as an issue key by the statement of C8
QualifyingSegment(part) ==
    LET key_parts == split(part, "-")
    IN  /\ Len(key_parts) = 2
        /\ key_parts[1] # << >>
        /\ \A n \in 1..Len(key_parts[1]) : is_ascii_uppercase(key_parts[1][n])
        /\ key_parts[2] # << >>
        /\ \A n \in 1..Len(key_parts[2]) : is_ascii_digit(key_parts[2][n])

FirstQualifyingSegment(url) ==
    LET parts == split(url, "/")
    IN  IF \E n \in 1..Len(parts) : QualifyingSegment(parts[n])
        THEN Some(parts[CHOOSE n \in 1..Len(parts) :
                          QualifyingSegment(parts[n])
                          /\ \A j \in 1..(n - 1) : ~QualifyingSegment(parts[j])])
        ELSE None

\* C8: extract_jira_key returns the first '/'-separated segment that splits on
\* '-' into exactly two parts, the first non-empty and all uppercase ASCII
\* letters, the second non-empty and all ASCII digits; no key otherwise.
C8_FirstQualifyingSegment ==
    (pc = "extract_jira_key" /\ returned) => ret = FirstQualifyingSegment(arg)

\* the date named by text of the shape DD/Mon/YY by the statement of C9: three
\* fields, a numeric day, a month token of Jan..Dec, a year of exactly two
\* digits read as 2000 + YY, and a valid calendar date
DateOfShape(date_str) ==
    LET parts == split(date_str, "/")
    IN  IF /\ Len(parts) = 3
           /\ parts[1] # << >> /\ AllDigits(parts[1])
           /\ \E m \in 1..12 : MonthTokens[m] = parts[2]
           /\ Len(parts[3]) = 2 /\ AllDigits(parts[3])
        THEN LET y == 2000 + DecimalValue(parts[3])
                 m == CHOOSE k \in 1..12 : MonthTokens[k] = parts[2]
                 d == DecimalValue(parts[1])
             IN  IF d >= 1 /\ d <= DaysInMonth(y, m) THEN Some(days_from_civil(y, m, d))
                 ELSE None
        ELSE None

\* C9: parse_date returns a date only for text of the shape DD/Mon/YY that names
\* a valid calendar date, and then exactly that date; for every other input,
\* a year field that is not two digits included, it returns no value.
C9_OnlyDayMonthYear ==
    (pc = "parse_date" /\ returned) => ret = DateOfShape(arg)

\* the positions of main after the sort of the retained records
AfterIngestion ==
    \/ pc \in {"enrich", "bearer", "basic", "decode", "ai", "fallback"}
    \/ (pc = "done" /\ fileOpened)

\* the parsed Date of every row of the log (None for an invalid row)
RowDates ==
    [n \in 1..Len(csv) |-> IF csv[n] = None THEN None ELSE parse_date(csv[n][1].date)]

\* the rows of the log that are to be retained
RetainedRows ==
    LET dates == RowDates
    IN  {n \in 1..Len(csv) :
            dates[n] # None /\ week_start <= dates[n][1] /\ dates[n][1] <= week_end}

\* C10: after ingestion the retained records are exactly the structurally
\* valid rows whose Date parses and lies in week_start..week_end, both bounds
\* included; an invalid row does not prevent later rows from being retained;
\* and the list is in ascending order of parsed date before any issue-tracker
\* lookup or report output.
C10_RetainedInWeekSorted ==
    /\ AfterIngestion
         => LET retained == RetainedRows
                dates == [n \in 1..Len(outages) |-> parse_date(outages[n].date)]
            IN  /\ Len(outages) = Cardinality(retained)
                /\ \A k \in retained :
                     Cardinality({n \in 1..Len(outages) : outages[n] = csv[k][1]})
                       = Cardinality({n \in retained : csv[n][1] = csv[k][1]})
                /\ \A a, b \in 1..Len(outages) : a < b => dates[a][1] <= dates[b][1]
    /\ (jiraRequests > 0 \/ lmRequests > 0 \/ stdout # << >> \/ fetchCount # << >>)
         => AfterIngestion

C10_Witness ==
    /\ pc = "enrich"
    /\ Len(csv) = 2
    /\ Len(outages) = 2
    /\ parse_date(csv[1][1].date)[1] = week_end
    /\ parse_date(csv[2][1].date)[1] = week_start
    /\ outages = <<csv[2][1], csv[1][1]>>

(***************************************************************************)
(* extract_rca_and_preventative_measures.  A description is a sequence of  *)
(* tokens: "\n", " ", ":", and words or phrases.                           *)
(***************************************************************************)
MaxLines == 3

\* str::to_lowercase of the words and phrases used
to_lowercase_token(token) ==
    CASE token = "RCA" -> "rca"
      [] token = "Root Cause Analysis" -> "root cause analysis"
      [] token = "Preventative Measures" -> "preventative measures"
      [] token = "Prevention" -> "prevention"
      [] token = "Summary" -> "summary"
      [] token = "Caused by" -> "caused by"
      [] OTHER -> token

\* the lowercase words and phrases that contain "root cause", "caused by" or "due to"
KeywordTokens == {"root cause", "caused by", "due to", "root cause analysis"}

\* str::trim
RECURSIVE trim(_)
trim(text) ==
    IF text # << >> /\ text[1] \in {" ", "\n"} THEN trim(Tail(text))
    ELSE IF text # << >> /\ text[Len(text)] \in {" ", "\n"}
    THEN trim(SubSeq(text, 1, Len(text) - 1))
    ELSE text

\* str::lines: the pieces between line feeds, without a final empty piece
lines(text) ==
    LET pieces == split(text, "\n")
    IN  IF pieces[Len(pieces)] = << >> THEN SubSeq(pieces, 1, Len(pieces) - 1) ELSE pieces

\* Vec<String>::join("\n")
RECURSIVE join_lines(_)
join_lines(pieces) ==
    IF pieces = << >> THEN << >>
    ELSE IF Len(pieces) = 1 THEN pieces[1]
    ELSE pieces[1] \o <<"\n">> \o join_lines(Tail(pieces))

\* the two patterns: the labels of (?i)(?:RCA|Root Cause Analysis?) and of
\* (?i)(?:Preventative Measures?|Prevention|Preventive Measures?); both end with
\* the look-ahead (?=\n\s*(?:[A-Z][^:\n]*:|$))
RcaPattern ==
    [labels |-> {"rca", "root cause analysis", "root cause analysi"}, look_ahead |-> TRUE]
PmPattern ==
    [labels |-> {"preventative measures", "preventative measure", "prevention",
                 "preventive measures", "preventive measure"},
     look_ahead |-> TRUE]

\* regex::Regex::new(..).is_ok(): the regex crate has no look-around, so a
\* pattern with a look-ahead does not compile
regex_new(pattern) == ~pattern.look_ahead

\* the end of the line that starts at token n: the position of its "\n", or Len + 1
RECURSIVE line_end(_, _)
line_end(description, n) ==
    IF n > Len(description) \/ description[n] = "\n" THEN n
    ELSE line_end(description, n + 1)

\* the look-ahead at position n: "\n", white space, then the end of the text or
\* a line that starts with a letter and has a ':'
look_ahead_at(description, n) ==
    /\ n <= Len(description)
    /\ description[n] = "\n"
    /\ LET next == skip_whitespace(description, n + 1)
       IN  \/ next > Len(description)
           \/ /\ description[next] \notin {":"} \cup TimeTokens
              /\ \E k \in (next + 1)..(line_end(description, next) - 1) : description[k] = ":"

\* the content a pattern captures when its match starts at the label at token n:
\* None when there is no match there
section_at(pattern, description, n) ==
    IF to_lowercase_token(description[n]) \notin pattern.labels THEN None
    ELSE LET colon == skip_whitespace(description, n + 1)
             after == IF colon <= Len(description) /\ description[colon] = ":"
                      THEN colon + 1 ELSE colon
             start == skip_whitespace(description, after)
             end   == line_end(description, start)
         IN  IF look_ahead_at(description, end)
             THEN Some(SubSeq(description, start, end - 1))
             ELSE IF \E k \in (n + 1)..(start - 1) :
                        description[k] = "\n" /\ look_ahead_at(description, k)
             THEN Some(<< >>)
             ELSE None

\* a label at token n is at the start of the text or of a line, after white space
at_line_start(description, n) ==
    \A k \in 1..(n - 1) :
        description[k] \in {" ", "\n"}
        \/ \E j \in (k + 1)..(n - 1) : description[j] = "\n"

\* pattern.captures(description): the capture of the leftmost match, or None
captures(pattern, description) ==
    LET starts == {n \in 1..Len(description) :
                     at_line_start(description, n)
                     /\ section_at(pattern, description, n) # None}
    IN  IF starts = {} THEN None
        ELSE section_at(pattern, description,
                        CHOOSE n \in starts : \A k \in starts : n <= k)

\* the piece pushed for one pattern: << >> or <<prefix: content>>
section_piece(pattern, prefix, description) ==
    IF ~regex_new(pattern) THEN << >>
    ELSE LET found == captures(pattern, description)
         IN  IF found = None \/ trim(found[1]) = << >> THEN << >>
             ELSE << <<prefix, ":", " ">> \o trim(found[1]) >>

\* the first line with a keyword, trimmed: << >> or <<line>>
keyword_line(description) ==
    LET all == lines(description)
        hits == {n \in 1..Len(all) :
                   \E k \in 1..Len(all[n]) : to_lowercase_token(all[n][k]) \in KeywordTokens}
    IN  IF hits = {} THEN << >>
        ELSE <<trim(all[CHOOSE n \in hits : \A k \in hits : n <= k])>>

extract_rca_and_preventative_measures(description) ==
    LET sections == section_piece(RcaPattern, "RCA", description)
                    \o section_piece(PmPattern, "Preventative Measures", description)
        extracted_content == IF sections = << >> THEN keyword_line(description) ELSE sections
    IN  join_lines(extracted_content)

DescriptionLines ==
    { <<"RCA", ":", " ", "w">>,
      << >>,
      <<"Preventative Measures", ":", " ", "v">>,
      <<"Summary", ":", " ", "x", " ", "due to", " ", "y">>,
      <<"z", " ", "Caused by", " ", "y", " ">>,
      <<"Root Cause Analysis", ":">>,
      <<"RCA", ":", " ", "w", " ", "due to", " ", "y">> }

\* descriptions of up to MaxLines lines, with and without a final line feed
DescriptionInputs ==
    LET texts == {join_lines(ls) : ls \in UNION {[1..n -> DescriptionLines] : n \in 0..MaxLines}}
    IN  texts \cup {t \o <<"\n">> : t \in texts}

InitRca ==
    /\ MainIdle("extract_rca_and_preventative_measures")
    /\ arg \in DescriptionInputs
    /\ ret = None
    /\ returned = FALSE

Call_extract_rca_and_preventative_measures ==
    /\ pc = "extract_rca_and_preventative_measures"
    /\ ~returned
    /\ ret' = extract_rca_and_preventative_measures(arg)
    /\ returned' = TRUE
    /\ UNCHANGED <<arg, mainVars>>

SpecRca == InitRca /\ [][Call_extract_rca_and_preventative_measures]_vars

\* the contents of the lines "label: content" of a description, content not empty
LabelledContents(description, label) ==
    {trim(SubSeq(line, 3, Len(line))) :
        line \in {l \in {lines(description)[n] : n \in 1..Len(lines(description))} :
                    Len(l) >= 3 /\ l[1] = label /\ l[2] = ":"
                    /\ trim(SubSeq(l, 3, Len(l))) # << >>}}

\* the description has one "RCA:" line and one "Preventative Measures:" line,
\* both with content, and nothing else but blank lines
TwoSections(description) ==
    /\ Cardinality(LabelledContents(description, "RCA")) = 1
    /\ Cardinality(LabelledContents(description, "Preventative Measures")) = 1
    /\ \A n \in 1..Len(lines(description)) :
         lines(description)[n] = << >> \/ lines(description)[n][1] \in {"RCA", "Preventative Measures"}
    /\ Cardinality({n \in 1..Len(lines(description)) : lines(description)[n] # << >>}) = 2

\* C11: for a description with a section labeled RCA: and a section labeled
\* Preventative Measures:, both with content, the result is "RCA: <content>",
\* a line feed, "Preventative Measures: <content>"; and when a labeled section
\* was found the result consists of labeled sections, never of the keyword line.
C11_BothSectionsInOrder ==
    (pc = "extract_rca_and_preventative_measures" /\ returned)
        => /\ TwoSections(arg)
                => ret = <<"RCA", ":", " ">>
                         \o (CHOOSE c \in LabelledContents(arg, "RCA") : TRUE)
                         \o <<"\n", "Preventative Measures", ":", " ">>
                         \o (CHOOSE c \in LabelledContents(arg, "Preventative Measures") : TRUE)
           /\ ((LabelledContents(arg, "RCA") \cup LabelledContents(arg, "Preventative Measures")) # {}
                    /\ ~contains(arg, "Root Cause Analysis"))
                => /\ ret # << >>
                   /\ \A n \in 1..Len(lines(ret)) :
                        lines(ret)[n][1] \in {"RCA", "Preventative Measures"}

(***************************************************************************)
(* format_outage_entry on its own, next to the run that calls it           *)
(***************************************************************************)
\* record, start_time, end_time: the records of the log with every combination
\* of a known and an unknown start and end
EntryInputs ==
    {<<r[1], start_time, end_time>> :
        r \in RowChoices \ {None},
        start_time \in {None, Some("18:40")},
        end_time \in {None, Some("18:43")}}

InitEntry ==
    /\ MainIdle("format_outage_entry")
    /\ arg \in EntryInputs
    /\ ret = None
    /\ returned = FALSE

Call_format_outage_entry ==
    /\ pc = "format_outage_entry"
    /\ ~returned
    /\ ret' = format_outage_entry(arg[1], arg[2], arg[3])
    /\ returned' = TRUE
    /\ UNCHANGED <<arg, mainVars>>

SpecEntry == (Init \/ InitEntry) /\ [][Next \/ Call_format_outage_entry]_vars

TimeSuffix(duration, start_time, end_time) ==
    IF start_time # None /\ end_time # None
    THEN <<" ", "(", start_time[1], " ", "-", " ", end_time[1], " ", "-", " ">>
         \o duration \o <<"m", "i", "n", ")">>
    ELSE IF duration # << >> /\ duration # <<"0">>
    THEN <<" ", "(">> \o duration \o <<"m", "i", "n", ")">>
    ELSE << >>

SeveritySuffix(severity) ==
    IF severity = << >> THEN << >> ELSE <<" ", "(">> \o severity \o <<")">>

\* the first line of an entry
FirstLine(entry) ==
    SubSeq(entry, 1, (CHOOSE n \in 1..Len(entry) :
                        entry[n] = "\n" /\ \A k \in 1..(n - 1) : entry[k] # "\n") - 1)

\* the first line the claim describes, after the date text
EntryLine(record, start_time, end_time) ==
    TimeSuffix(record.duration, start_time, end_time) \o <<" ">> \o record.service
        \o SeveritySuffix(record.severity)

\* the time range of the description of the issue cached for a record, if any
CachedTimeRange(record) ==
    LET key == extract_jira_key(record.ticket)
    IN  IF key = None THEN <<None, None>>
        ELSE IF key[1] \notin DOMAIN jira_details THEN <<None, None>>
        ELSE IF jira_details[key[1]].description = None THEN <<None, None>>
        ELSE extract_time_from_description(jira_details[key[1]].description[1])

FallbackPrinted ==
    pc = "done" /\ stdout # << >> /\ stdout[Len(stdout)] = RegardsLine

\* the text of the first line of an entry after the date
AfterDate(entry, record) ==
    LET line == FirstLine(entry)
        parsed == parse_date(record.date)
        date == IF parsed = None THEN record.date ELSE format_month_day(parsed[1])
    IN  IF SubSeq(line, 1, Len(date)) = date
        THEN Some(SubSeq(line, Len(date) + 1, Len(line))) ELSE None

\* C12: the first line of an entry of format_outage_entry is the date, the time
\* suffix " (start - end - {duration}min)" when both times are given, otherwise
\* " ({duration}min)" when the duration text is not empty and not "0", otherwise
\* nothing, then the service and the severity suffix " ({severity})" when the
\* severity is not empty; and in the fallback report the times of a record are
\* those of the time range of its cached issue description, none when there is
\* no such range.
C12_EntrySuffixes ==
    /\ (pc = "format_outage_entry" /\ returned)
         => AfterDate(ret, arg[1]) = Some(EntryLine(arg[1], arg[2], arg[3]))
    /\ FallbackPrinted
         => /\ Len(stdout) = 7 + Len(outages)
            /\ \A n \in 1..Len(outages) :
                 /\ AfterDate(stdout[6 + n], outages[n])
                      = Some(EntryLine(outages[n], CachedTimeRange(outages[n])[1],
                                       CachedTimeRange(outages[n])[2]))
                 /\ (CachedTimeRange(outages[n])[1] = None)
                      = (CachedTimeRange(outages[n])[2] = None)

C12_Witness ==
    /\ FallbackPrinted
    /\ \E n \in 1..Len(outages) : CachedTimeRange(outages[n])[1] # None
    /\ \E n \in 1..Len(outages) :
         /\ CachedTimeRange(outages[n])[1] = None
         /\ TimeSuffix(outages[n].duration, None, None) # << >>

(***************************************************************************)
(* parse_duration_to_minutes.  A duration is a sequence of characters.  The *)
(* result is [kind |-> "value", minutes |-> n] or, when an i32 operation   *)
(* overflows in a build with overflow checks, [kind |-> "panic"].          *)
(***************************************************************************)
MaxParts == 3

UpperChars == <<"A", "B", "C", "D", "E", "F", "G", "H", "I", "J", "K", "L", "M",
                "N", "O", "P", "Q", "R", "S", "T", "U", "V", "W", "X", "Y", "Z">>
LowerChars == <<"a", "b", "c", "d", "e", "f", "g", "h", "i", "j", "k", "l", "m",
                "n", "o", "p", "q", "r", "s", "t", "u", "v", "w", "x", "y", "z">>

to_lowercase(s) ==
    [n \in 1..Len(s) |->
        IF is_ascii_uppercase(s[n])
        THEN LowerChars[CHOOSE k \in 1..26 : UpperChars[k] = s[n]]
        ELSE s[n]]

starts_with_at(s, n, pat) ==
    n + Len(pat) - 1 <= Len(s) /\ SubSeq(s, n, n + Len(pat) - 1) = pat

\* str::replace(pat, ""): the text without the occurrences of pat, left to right
RECURSIVE replace(_, _)
replace(s, pat) ==
    IF s = << >> THEN << >>
    ELSE IF starts_with_at(s, 1, pat) THEN replace(SubSeq(s, Len(pat) + 1, Len(s)), pat)
    ELSE <<s[1]>> \o replace(Tail(s), pat)

\* the last position of the run of digits that starts at n
RECURSIVE digit_run_end(_, _)
digit_run_end(s, n) ==
    IF n + 1 <= Len(s) /\ is_ascii_digit(s[n + 1]) THEN digit_run_end(s, n + 1) ELSE n

\* (\d+)h(\d+)m matches from position n
hm_match_at(s, n) ==
    /\ n <= Len(s) /\ is_ascii_digit(s[n])
    /\ LET h == digit_run_end(s, n) + 1
       IN  /\ h + 1 <= Len(s) /\ s[h] = "h" /\ is_ascii_digit(s[h + 1])
           /\ LET m == digit_run_end(s, h + 1) + 1
              IN  m <= Len(s) /\ s[m] = "m"

\* the two groups of the leftmost match of (\d+)h(\d+)m, or None
hm_captures(s) ==
    LET starts == {n \in 1..Len(s) : hm_match_at(s, n)}
    IN  IF starts = {} THEN None
        ELSE LET n == CHOOSE k \in starts : \A j \in starts : k <= j
                 h == digit_run_end(s, n) + 1
             IN  Some(<<SubSeq(s, n, h - 1), SubSeq(s, h + 1, digit_run_end(s, h + 1))>>)

\* the group of the leftmost match of (\d+), or None
digits_captures(s) ==
    LET starts == {n \in 1..Len(s) : is_ascii_digit(s[n])}
    IN  IF starts = {} THEN None
        ELSE LET n == CHOOSE k \in starts : \A j \in starts : k <= j
             IN  Some(SubSeq(s, n, digit_run_end(s, n)))

unwrap_or(option, default) == IF option = None THEN default ELSE option[1]

\* hours * 60 leaves i32
mul_overflows(hours) == hours > I32Max \div 60 \/ hours < 0 - (I32Max \div 60)

\* hours * 60 modulo 2^32 as an i32, computed on 16-bit halves
wrapping_mul(hours) ==
    LET low  == 60 * (hours % 65536)
        high == (60 * (hours \div 65536) + (low \div 65536)) % 65536
    IN  (IF high >= 32768 THEN high - 65536 ELSE high) * 65536 + (low % 65536)

\* a + b leaves i32
add_overflows(a, b) ==
    \/ b > 0 /\ a > I32Max - b
    \/ b < 0 /\ a < I32Min - b

\* a + b modulo 2^32 as an i32
wrapping_add(a, b) ==
    IF b > 0 /\ a > I32Max - b THEN (a - I32Max - 1) + (b - I32Max - 1)
    ELSE IF b < 0 /\ a < I32Min - b THEN (a + I32Max + 1) + (b + I32Max + 1)
    ELSE a + b

\* hours * 60 + minutes in i32: a panic with overflow checks, wrapped without
hours_and_minutes(hours, minutes, overflow_checks) ==
    IF overflow_checks
       /\ (mul_overflows(hours) \/ add_overflows(wrapping_mul(hours), minutes))
    THEN [kind |-> "panic"]
    ELSE [kind |-> "value", minutes |-> wrapping_add(wrapping_mul(hours), minutes)]

parse_duration_to_minutes(text, overflow_checks) ==
    LET duration_str == to_lowercase(text)
        parts == split(duration_str, "+")
        captures_hm == hm_captures(duration_str)
        captures_digits == digits_captures(duration_str)
    IN  IF contains(duration_str, "+") /\ Len(parts) = 2
        THEN hours_and_minutes(
                 unwrap_or(parse_i32(parts[1]), 0),
                 unwrap_or(parse_i32(trim(replace(replace(parts[2],
                                                          <<"m", "i", "n", "u", "t", "e", "s">>),
                                                  <<"m", "i", "n">>))), 0),
                 overflow_checks)
        ELSE IF contains(duration_str, "h") /\ contains(duration_str, "m")
                /\ captures_hm # None
        THEN hours_and_minutes(unwrap_or(parse_i32(captures_hm[1][1]), 0),
                               unwrap_or(parse_i32(captures_hm[1][2]), 0),
                               overflow_checks)
        ELSE IF captures_digits # None
        THEN [kind |-> "value", minutes |-> unwrap_or(parse_i32(captures_digits[1]), 5)]
        ELSE [kind |-> "value", minutes |-> 5]

\* the pieces durations are put together from
Fields ==
    { << >>, <<"4">>, <<"2", "9">>, <<"0">>,
      <<"3", "5", "7", "9", "1", "3", "9", "5">>,
      <<"3", "0", "0", "0", "0", "0", "0", "0", "0", "0">>,
      <<"-", "4">>, <<" ", "2", "9", " ", "m", "i", "n", "u", "t", "e", "s">>, <<"x">> }

DigitFields == {f \in Fields : AllDigits(f)}

RECURSIVE join_plus(_)
join_plus(parts) ==
    IF Len(parts) = 1 THEN parts[1]
    ELSE parts[1] \o <<"+">> \o join_plus(Tail(parts))

\* values of duration_str: up to MaxParts pieces joined by '+', the forms with
\* h and m in either case, and texts with a unit or with nothing numeric
DurationInputs ==
    {join_plus(parts) : parts \in UNION {[1..n -> Fields] : n \in 1..MaxParts}}
    \cup {a \o h \o b \o m : a \in DigitFields, b \in DigitFields,
                             h \in {<<"h">>, <<"H">>}, m \in {<<"m">>, <<"M">>, << >>}}
    \cup { <<"4", "5">>, <<"4", "5", " ", "m", "i", "n">>, <<"a", "b", "c">>,
           <<"x", "1", "h", "2", "h", "3", "m">>, <<"4", "h", "2", "9", "m", "+", "1">> }

InitDuration ==
    /\ MainIdle("parse_duration_to_minutes")
    /\ arg \in DurationInputs
    /\ ret = None
    /\ returned = FALSE

\* one call, in a build with or without overflow checks
Call_parse_duration_to_minutes ==
    /\ pc = "parse_duration_to_minutes"
    /\ ~returned
    /\ \E overflow_checks \in BOOLEAN :
         ret' = parse_duration_to_minutes(arg, overflow_checks)
    /\ returned' = TRUE
    /\ UNCHANGED <<arg, mainVars>>

SpecDuration == InitDuration /\ [][Call_parse_duration_to_minutes]_vars

\* a '+' part the claim is clear about: a number, nothing, or no number at all
ClearPart(part) == AllDigits(part) \/ part = <<"x">>

\* v is the number the digits write (no i32 is, when the number is outside i32)
IsNumber(v, digits) == fits(digits, I32MaxDigits) /\ v = DecimalValue(digits)

\* v = hours * 60 + minutes for the numbers two parts write, a part that is
\* empty or not a number counting as 0
IsHoursAndMinutes(v, hours, minutes) ==
    LET h == IF hours = << >> \/ ~AllDigits(hours) THEN <<"0">> ELSE hours
        m == IF minutes = << >> \/ ~AllDigits(minutes) THEN <<"0">> ELSE minutes
    IN  /\ fits(h, I32MaxDigits) /\ fits(m, I32MaxDigits)
        /\ DecimalValue(h) <= I32Max \div 60
        /\ 60 * DecimalValue(h) <= I32Max - DecimalValue(m)
        /\ v = 60 * DecimalValue(h) + DecimalValue(m)

\* the minutes the rules give, first match wins
StatedMinutes(v, text) ==
    LET lower == to_lowercase(text)
        parts == split(lower, "+")
    IN  IF contains(lower, "+") /\ Len(parts) = 2
        THEN (ClearPart(parts[1]) /\ ClearPart(parts[2]))
                => IsHoursAndMinutes(v, parts[1], parts[2])
        ELSE IF contains(lower, "h") /\ contains(lower, "m") /\ hm_captures(lower) # None
        THEN IsHoursAndMinutes(v, hm_captures(lower)[1][1], hm_captures(lower)[1][2])
        ELSE IF digits_captures(lower) # None
        THEN IsNumber(v, digits_captures(lower)[1])
        ELSE v = 5

\* C13: parse_duration_to_minutes returns a whole number of minutes for every
\* input, by the first rule that matches: two parts around a '+' give
\* hours*60 + minutes with a missing or invalid part counted as 0; text with h
\* and m that matches <digits>h<digits>m gives hours*60 + minutes; otherwise the
\* first run of digits is the number of minutes; text with no digit gives 5.
C13_StatedMinutes ==
    (pc = "parse_duration_to_minutes" /\ returned)
        => (ret.kind = "value" /\ StatedMinutes(ret.minutes, arg))

====
